---------------------------- MODULE Spec2Model ----------------------------
(***************************************************************************)
(* A model of ghcp-ollama: the streaming response path                     *)
(* (sendHttpStreamingRequest and CopilotChatClient.#parseToOllamaResp) and *)
(* the credential life cycle (CopilotAuth, the renewal timer of server.js  *)
(* and the pre-request check of CopilotChatClient.sendStreamingRequest).   *)
(*                                                                         *)
(* Text is a sequence of one-character strings.  The record separator, the *)
(* event-data prefix and the [DONE] sentinel are spelled out character by  *)
(* character.  A JSON payload is written in a compact encoding, decoded by *)
(* JsonParse:                                                              *)
(*    {      }   the object's braces                                       *)
(*    H   choices[0].delta.content = "Hi"                                  *)
(*    T   choices[0].delta.content = " there"                              *)
(*    D   choices[0].delta = {}                                            *)
(*    n   choices[0].delta.tool_calls[0].function.name = "f"               *)
(*    m   choices[0].delta.tool_calls[0].function.name = "g"               *)
(*    i   choices[0].delta.tool_calls[0].index = 1 (0 without it)          *)
(*    a   choices[0].delta.tool_calls[0].function.arguments = the          *)
(*        characters < k > that follow it                                  *)
(*    F   choices[0].finish_reason = "tool_calls"                          *)
(*    S   choices[0].finish_reason = "stop"                                *)
(*    U   usage = {prompt_tokens, completion_tokens}                       *)
(* Any other text is not JSON.  A tool call's argument string is JSON when *)
(* it reads < k ... k >.                                                   *)
(***************************************************************************)
EXTENDS Integers, Sequences, FiniteSets, TLC

VARIABLES
  \* ---- one streaming response (sendHttpStreamingRequest) ----
  stream,      \* the text the upstream sends over the whole response
  pos,         \* how many characters of it the transport has delivered
  buffer,      \* `buffer` of sendHttpStreamingRequest
  phase,       \* "open" | "ended"
  delivered,   \* every message handed to onResponse so far, in order
  lastBatch,   \* the messages of the latest onResponse call
  lastMarker,  \* the marker of the latest onResponse call ("none" before)
  handed,      \* every segment the parser's loop body has worked on
  consumed,    \* the segments the parser has split off the buffer
  resStatusCode, \* res.statusCode of the chat endpoint's response
  errorData,   \* `errorData` of the non-200 branch
  result,      \* the promise sendHttpStreamingRequest returns
  outcome,     \* what #doSendRequest returned ("none" before it returns)
  requests,    \* the chat requests written by this sendStreamingRequest call
  pending,     \* incompleteResult as the latest parse call left it
  \* ---- the credential (CopilotAuth, server.js, sendStreamingRequest) ----
  now,          \* the clock, in minutes
  store,        \* github-token.json
  lspUser,      \* whether the language server reports a signed-in user
  oauth,        \* whether apps.json holds an OAuth token
  exchanges,    \* token exchange requests issued so far
  exchangeFailed, \* whether a token exchange has failed so far
  copilotStatus,\* server.js copilotStatus: "null" | "ready" | "auth"
  nextTick,     \* when authRefreshInterval fires next (0: not armed)
  local,        \* per caller of signIn: where it stands, and its locals
  lastSent,     \* the latest outbound chat request
  \* ---- the language-server client (CopilotLSPClient) ----
  initialized,  \* this.initialized
  connection,   \* this.connection: the child it talks to (0: null)
  childProcess, \* this.childProcess: the child it holds (0: null)
  children,     \* every child spawned so far, and how it stands
  starts,       \* per caller of start(): where the call stands
  lspCalls,     \* how many times request() has been called
  lspSent,      \* how many requests request() has written to a connection
  lastRequest,  \* how the latest request() call went ("none" before)
  \* ---- the server's handlers and the model selection ----
  chatHandler,  \* handleChatRequest: "awaiting" | "returned" | "ended"
  gate,         \* what the latest ensureCopilotSetup call did ("none" before)
  modelFile,    \* model-config.json: the model id it holds, or NoConfig
  currentModel  \* what the latest getCurrentModel() call returned

streamVars == <<stream, pos, buffer, phase, delivered, lastBatch, lastMarker,
                handed, consumed, resStatusCode, errorData, result, outcome,
                requests, pending>>

authVars == <<now, store, lspUser, oauth, exchanges, exchangeFailed,
              copilotStatus, nextTick, local, lastSent>>

lspVars == <<initialized, connection, childProcess, children, starts,
             lspCalls, lspSent, lastRequest>>

srvVars == <<chatHandler, gate, modelFile, currentModel>>

hostVars == <<lspVars, srvVars>>

vars == <<streamVars, authVars, hostVars>>

-----------------------------------------------------------------------------
(* Bounds *)

MaxFrames == 3

MaxArgs == 2

MaxTime == 62

MaxExchanges == 3

MaxBody == 4

MaxLines == 2

\* How many language-server processes the client spawns at most
MaxSpawns == 3

\* How many times request() is called at most
MaxCalls == 2

-----------------------------------------------------------------------------
(* Text *)

Sep == <<"\n", "\n">>

Newline == <<"\n">>

DataPrefix == <<"d", "a", "t", "a", ":", " ">>

DoneSentinel == <<"[", "D", "O", "N", "E", "]">>

Whitespace == {" ", "\n", "\t", "\r"}

Range(s) == {s[i] : i \in 1..Len(s)}

\* String.prototype.slice(n)
Slice(s, n) == SubSeq(s, n + 1, Len(s))

\* String.prototype.startsWith
StartsWith(s, p) == Len(s) >= Len(p) /\ SubSeq(s, 1, Len(p)) = p

\* Whether sep occurs in s at index i
MatchAt(s, sep, i) ==
  /\ i + Len(sep) - 1 <= Len(s)
  /\ \A j \in 1..Len(sep) : s[i + j - 1] = sep[j]

\* The segments of s from index start on, the scan standing at index i
RECURSIVE SplitFrom(_, _, _, _)
SplitFrom(s, sep, start, i) ==
  IF i > Len(s) THEN <<SubSeq(s, start, Len(s))>>
  ELSE IF MatchAt(s, sep, i)
    THEN <<SubSeq(s, start, i - 1)>>
           \o SplitFrom(s, sep, i + Len(sep), i + Len(sep))
    ELSE SplitFrom(s, sep, start, i + 1)

\* String.prototype.split with a non-empty string separator: the leftmost
\* occurrences, not overlapping
Split(s, sep) == SplitFrom(s, sep, 1, 1)

\* !respMessage alone: only the empty string is skipped (a faulty variant)
IsEmpty(s) == s = <<>>

\* respMessage.trim() === ""  (and !respMessage, the empty string)
IsBlank(s) == \A i \in 1..Len(s) : s[i] \in Whitespace

RECURSIVE Concat(_)
Concat(ss) == IF ss = <<>> THEN <<>> ELSE Head(ss) \o Concat(Tail(ss))


-----------------------------------------------------------------------------
(* JSON.parse, on the compact encoding *)

FieldChars == {"H", "T", "D", "n", "m", "i", "a", "F", "S", "U"}

ArgChars == {"<", "k", ">"}

NoContent == "<absent>"

Inner(data) == SubSeq(data, 2, Len(data) - 1)

\* Whether JSON.parse(data) returns (TRUE) or throws a SyntaxError (FALSE)
JsonValid(data) ==
  /\ Len(data) >= 2
  /\ data[1] = "{"
  /\ data[Len(data)] = "}"
  /\ LET in == Inner(data)
     IN /\ \A i \in 1..Len(in) : in[i] \in FieldChars \cup ArgChars
        /\ \A i \in 1..Len(in) :
             in[i] \in ArgChars => i > 1 /\ in[i - 1] \in ArgChars \cup {"a"}
        /\ \A i, j \in 1..Len(in) :
             (in[i] \in FieldChars /\ in[i] = in[j]) => i = j
        /\ ~({"H", "T"} \subseteq Range(in))
        /\ ~({"F", "S"} \subseteq Range(in))
        /\ ~({"n", "m"} \subseteq Range(in))

\* The object JSON.parse(data) returns, for valid data
JsonParse(data) ==
  LET in == Inner(data)
      f  == Range(in)
  IN [choice   |-> f \cap {"H", "T", "D", "n", "m", "i", "a", "F", "S"} # {},
      delta    |-> f \cap {"H", "T", "D", "n", "m", "i", "a"} # {},
      content  |-> IF "H" \in f THEN "Hi"
                   ELSE IF "T" \in f THEN " there" ELSE NoContent,
      toolCall |-> f \cap {"n", "m", "i", "a"} # {},
      toolIndex |-> IF "i" \in f THEN 1 ELSE 0,
      toolName |-> IF "n" \in f THEN "f" ELSE IF "m" \in f THEN "g" ELSE "",
      toolArgs |-> SelectSeq(in, LAMBDA c : c \in ArgChars),
      finish   |-> IF "F" \in f THEN "tool_calls"
                   ELSE IF "S" \in f THEN "stop" ELSE "",
      usage    |-> "U" \in f]

\* Whether JSON.parse of a tool call's accumulated argument string returns
ArgsValid(s) ==
  /\ Len(s) >= 2
  /\ s[1] = "<"
  /\ s[Len(s)] = ">"
  /\ \A i \in 2..(Len(s) - 1) : s[i] = "k"

-----------------------------------------------------------------------------
(* The accumulator `incompleteResult` of #parseToOllamaResp.               *)
(* def = FALSE is the JavaScript value undefined: reading one of its       *)
(* properties throws a TypeError, spreading it yields no property.         *)

NoArguments == [kind |-> "absent", val |-> <<>>]

Undefined == [def |-> FALSE, name |-> "", arguments |-> NoArguments,
              usage |-> FALSE]

\* {}
EmptyObject == [def |-> TRUE, name |-> "", arguments |-> NoArguments,
                usage |-> FALSE]

\* The text String(object) yields, "[object Object]", as one character
ObjectString == <<"o">>

\* JavaScript truthiness of incompleteResult.arguments
Truthy(a) == a.kind = "obj" \/ (a.kind = "str" /\ a.val # <<>>)

\* The string a value is converted to when a string is expected
ToText(a) == IF a.kind = "obj" THEN ObjectString ELSE a.val

\* JSON.parse(incompleteResult.arguments), where it returns
ParsedArguments(a) == [kind |-> "obj", val |-> Inner(ToText(a))]

\* incompleteResult.arguments += fragment, after the "" default
AppendFragment(a, frag) == [kind |-> "str", val |-> ToText(a) \o frag]

\* { ...incompleteResult, done_reason, model, created, prompt_eval_count,
\*   eval_count }
MergeUsage(acc) == [acc EXCEPT !.def = TRUE, !.usage = TRUE]

-----------------------------------------------------------------------------
(* Messages.  src is the position, among the segments one parse call works *)
(* on, of the segment that produced the message.                           *)

\* A terminal message that lacks done: true (a faulty variant)
TerminalMessageNotDone(acc, k) ==
  [done |-> FALSE, content |-> NoContent, name |-> acc.name,
   arguments |-> acc.arguments, usage |-> acc.usage, src |-> k]

\* { ...incompleteResult, done: true, message: {} }
TerminalMessage(acc, k) ==
  [done |-> TRUE, content |-> NoContent, name |-> acc.name,
   arguments |-> acc.arguments, usage |-> acc.usage, src |-> k]

\* { done: false, message: { role: "assistant", content: delta.content ?? "" } }
DeltaMessage(parsed, k) ==
  [done |-> FALSE,
   content |-> IF parsed.content = NoContent THEN "" ELSE parsed.content,
   name |-> "", arguments |-> NoArguments, usage |-> FALSE, src |-> k]

-----------------------------------------------------------------------------
(* CopilotChatClient.#parseToOllamaResp.  A step's result carries threw:   *)
(* the statement threw, and control went to the catch clause, which logs.  *)

\* if (choice.finish_reason) { ... }
FinishStep(acc, parsed) ==
  IF parsed.finish = "" THEN [acc |-> acc, threw |-> FALSE]
  ELSE IF parsed.finish = "tool_calls" /\ ~acc.def
    THEN [acc |-> acc, threw |-> TRUE]
  ELSE LET finalize == parsed.finish = "tool_calls" /\ Truthy(acc.arguments)
           a1 == IF finalize
                   THEN [acc EXCEPT !.arguments = ParsedArguments(@)]
                   ELSE acc
       IN IF finalize /\ ~ArgsValid(ToText(acc.arguments))
            THEN [acc |-> acc, threw |-> TRUE]
            ELSE [acc |-> IF parsed.usage THEN MergeUsage(a1) ELSE a1,
                  threw |-> FALSE]

\* if (choice.delta.tool_calls && choice.delta.tool_calls[0]) { ... }
ToolStep(acc, parsed) ==
  IF ~parsed.toolCall THEN [acc |-> acc, threw |-> FALSE]
  ELSE IF (parsed.toolName # "" \/ parsed.toolArgs # <<>>) /\ ~acc.def
    THEN [acc |-> acc, threw |-> TRUE]
  ELSE LET a1 == IF parsed.toolName # ""
                   THEN [acc EXCEPT !.name = parsed.toolName] ELSE acc
           a2 == IF parsed.toolArgs # <<>>
                   THEN [a1 EXCEPT
                           !.arguments = AppendFragment(@, parsed.toolArgs)]
                   ELSE a1
       IN [acc |-> a2, threw |-> FALSE]

\* parsedMessages.unshift(parsedMessage) (a faulty variant)
PushFront(msgs, m) == <<m>> \o msgs

\* parsedMessages.push(parsedMessage)
Push(msgs, m) == Append(msgs, m)

\* A catch clause that throws the batch collected so far away (a faulty
\* variant)
CaughtDropping(st) == [st EXCEPT !.msgs = <<>>]

\* catch (error) { console.error("Error parsing data:", error, data); }
Caught(st) == st

\* The try block: JSON.parse(data) and what follows it
ProcessPayload(st, data, k) ==
  IF ~JsonValid(data) THEN Caught(st)
  ELSE LET parsed == JsonParse(data)
           fin    == FinishStep(st.acc, parsed)
           tool   == ToolStep(fin.acc, parsed)
           pushed == [st EXCEPT !.msgs = Push(@, DeltaMessage(parsed, k)),
                                !.acc = tool.acc]
       IN IF ~parsed.choice THEN st
          ELSE IF fin.threw THEN Caught(st)
          ELSE IF ~parsed.delta THEN [st EXCEPT !.acc = fin.acc]
          ELSE IF tool.threw THEN Caught(pushed)
          ELSE pushed

\* The body of `for (const line of lines)`
ProcessLine(st, line, k) ==
  IF ~StartsWith(line, DataPrefix) THEN st
  ELSE LET data == Slice(line, Len(DataPrefix))
       IN IF data = DoneSentinel
            THEN [st EXCEPT !.msgs = Push(@, TerminalMessage(st.acc, k)),
                            !.acc = EmptyObject,
                            !.brk = TRUE]
            ELSE ProcessPayload(st, data, k)

\* for (const line of lines) with no break in the [DONE] branch: the lines
\* after [DONE] are worked on too (a faulty variant)
RECURSIVE ProcessLinesNoBreak(_, _, _)
ProcessLinesNoBreak(st, lines, k) ==
  IF lines = <<>> THEN st
  ELSE ProcessLinesNoBreak(ProcessLine(st, Head(lines), k), Tail(lines), k)

\* for (const line of lines), left by the break of the [DONE] branch
RECURSIVE ProcessLines(_, _, _)
ProcessLines(st, lines, k) ==
  IF lines = <<>> \/ st.brk THEN st
  ELSE ProcessLines(ProcessLine(st, Head(lines), k), Tail(lines), k)

\* The body of `for (const respMessage of respMessages)`
ProcessSegment(st, respMessage, k) ==
  IF IsBlank(respMessage) THEN st
  ELSE LET worked == [st EXCEPT !.frames = Append(@, respMessage),
                                !.brk = FALSE]
       IN ProcessLines(worked, Split(respMessage, Newline), k)

RECURSIVE ProcessSegments(_, _, _)
ProcessSegments(st, respMessages, k) ==
  IF respMessages = <<>> THEN st
  ELSE ProcessSegments(ProcessSegment(st, Head(respMessages), k),
                       Tail(respMessages), k + 1)

\* respMessages after respMessages.pop()
Front(ss) == SubSeq(ss, 1, Len(ss) - 1)

\* return { parsedMessages, remainBuffer }.  respMessages, frames and acc
\* are not returned by the code: they are what the call worked on.
ParseResult(respMessages, remainBuffer, st) ==
  [parsedMessages |-> st.msgs,
   remainBuffer   |-> remainBuffer,
   respMessages   |-> respMessages,
   frames         |-> st.frames,
   acc            |-> st.acc]

\* The function's body after buffer.split("\n\n")
ParseSplit(split, incompleteResult) ==
  ParseResult(Front(split), split[Len(split)],
              ProcessSegments([msgs |-> <<>>, acc |-> incompleteResult,
                               frames |-> <<>>, brk |-> FALSE],
                              Front(split), 1))

\* #parseToOllamaResp(buffer, incompleteResult)
ParseToOllamaResp(buf, incompleteResult) ==
  ParseSplit(Split(buf, Sep), incompleteResult)

-----------------------------------------------------------------------------
(* The upstream's streams: up to MaxFrames frames, each followed by the    *)
(* blank-line separator, the last one closed or not.                       *)

FrameHi == DataPrefix \o <<"{", "H", "}">>

FrameThere == DataPrefix \o <<"{", "T", "}">>

FrameDone == DataPrefix \o DoneSentinel

FrameFinishTool == DataPrefix \o <<"{", "D", "F", "}">>

FramePad == <<" ">>

\* The last payload of an answer: finish_reason "stop" and the usage counters
FrameStopUsage == DataPrefix \o <<"{", "D", "S", "U", "}">>

\* A data line whose payload is not JSON
FrameBad == DataPrefix \o <<"{", "x">>

\* The frames of a plain text answer, and blank padding
Catalogue == {FrameHi, FrameThere, FrameDone, FramePad}

RECURSIVE Join(_, _)
Join(frames, closed) ==
  IF frames = <<>> THEN <<>>
  ELSE IF Len(frames) = 1 /\ ~closed THEN Head(frames)
  ELSE Head(frames) \o Sep \o Join(Tail(frames), closed)

StreamTexts ==
  {Join(fs, c) : fs \in UNION {[1..n -> Catalogue] : n \in 0..MaxFrames},
                 c \in BOOLEAN}

(* An answer that calls a tool: the serialized arguments, < k ... k >, cut *)
(* into fragments at any places, one frame per fragment, the first one     *)
(* carrying the function's name; then the frame with finish_reason         *)
(* "tool_calls"; then [DONE].                                              *)

ArgStrings == {<<"<">> \o [i \in 1..n |-> "k"] \o <<">">> : n \in 0..MaxArgs}

\* Every way of cutting s into non-empty consecutive pieces
RECURSIVE Cuts(_)
Cuts(s) ==
  IF s = <<>> THEN {<<>>}
  ELSE UNION {{<<SubSeq(s, 1, i)>> \o rest : rest \in Cuts(Slice(s, i))} :
                i \in 1..Len(s)}

FragmentFrame(frags, i) ==
  DataPrefix \o <<"{">> \o (IF i = 1 THEN <<"n">> ELSE <<>>) \o <<"a">>
             \o frags[i] \o <<"}">>

ToolFrames(frags) ==
  [i \in 1..Len(frags) |-> FragmentFrame(frags, i)]
    \o <<FrameFinishTool, FrameDone>>

\* The one frame of a second tool call, index 1: its name and its arguments
FrameSecondCall == DataPrefix \o <<"{", "i", "m", "a", "<", ">", "}">>

\* An answer that calls two tools, one after the other
TwoCallFrames(frags) ==
  [i \in 1..Len(frags) |-> FragmentFrame(frags, i)]
    \o <<FrameSecondCall, FrameFinishTool, FrameDone>>

TwoCallTexts ==
  {Join(TwoCallFrames(frags), TRUE) :
     frags \in UNION {Cuts(a) : a \in ArgStrings}}

\* Serialized arguments cut short, which do not parse: < k ... k
BadArgStrings == {<<"<">> \o [i \in 1..n |-> "k"] : n \in 0..MaxArgs}

\* An answer that calls a tool with arguments that do not parse
BadArgsTexts ==
  {Join(ToolFrames(frags), TRUE) :
     frags \in UNION {Cuts(a) : a \in BadArgStrings}}

(* Frames of several lines: data lines, and lines that are none, such as  *)
(* the comment line ":" of the event-stream format.                        *)

LineComment == <<":">>

LineCatalogue == {FrameHi, FrameDone, LineComment}

RECURSIVE JoinLines(_)
JoinLines(lines) ==
  IF Len(lines) = 1 THEN Head(lines)
  ELSE Head(lines) \o Newline \o JoinLines(Tail(lines))

LineFrames ==
  {JoinLines(ls) : ls \in UNION {[1..n -> LineCatalogue] : n \in 1..MaxLines}}

\* A frame of one line, then a frame of up to MaxLines lines
LinesTexts ==
  {Join(<<first, second>>, TRUE) :
     first \in LineCatalogue, second \in LineFrames}

ToolTexts ==
  {Join(ToolFrames(frags), TRUE) : frags \in UNION {Cuts(a) : a \in ArgStrings}}

-----------------------------------------------------------------------------
(* sendHttpStreamingRequest: the handlers of the response's events *)

\* buffer = chunk.toString(): the retained remainder is forgotten (a faulty
\* variant)
FeedBufferChunkOnly(buf, chunk) == chunk

\* buffer += chunk.toString()
FeedBuffer(buf, chunk) == buf \o chunk

\* buffer = "": the text after the last separator is dropped (a faulty
\* variant)
NextBufferCleared(parsed) == <<>>

\* buffer = parsed.remainBuffer
NextBuffer(parsed) == parsed.remainBuffer

\* The messages of one parse call, src counted over the whole stream
Tagged(msgs, base) == [i \in 1..Len(msgs) |-> [msgs[i] EXCEPT !.src = @ + base]]

\* The sink invoked at the end only, the batches of the data events held
\* back from it (a faulty variant)
OnResponseAtEnd(msgs, marker) ==
  IF marker = "end"
    THEN /\ delivered' = delivered \o msgs
         /\ lastBatch' = msgs
         /\ lastMarker' = marker
    ELSE UNCHANGED <<delivered, lastBatch, lastMarker>>

\* onResponse(parsed.parsedMessages, marker)
OnResponse(msgs, marker) ==
  /\ delivered' = delivered \o msgs
  /\ lastBatch' = msgs
  /\ lastMarker' = marker

\* JSON.stringify of a string: quoted, with the quote, the backslash and
\* the line feed escaped
RECURSIVE Escaped(_)
Escaped(s) ==
  IF s = <<>> THEN <<>>
  ELSE (IF Head(s) = "\n" THEN <<"\\", "n">>
        ELSE IF Head(s) \in {"\"", "\\"} THEN <<"\\", Head(s)>>
        ELSE <<Head(s)>>) \o Escaped(Tail(s))

JsonStringify(s) == <<"\"">> \o Escaped(s) \o <<"\"">>

Pending == [state |-> "pending", error |-> <<>>, code |-> 0, body |-> <<>>]

\* new Error(`${statusCodeErrorMsg}: ${res.statusCode}: ${JSON.stringify(
\* errorData)}`)
StatusError(code, data) ==
  [state |-> "rejected", error |-> "Returned status code", code |-> code,
   body |-> JsonStringify(data)]

Resolved == [state |-> "resolved", error |-> <<>>, code |-> 0, body |-> <<>>]

\* A promise that takes every settlement, the last one standing (a faulty
\* variant)
SettleAgain(promise, settlement) == settlement

\* resolve(...) and reject(...): only the first settlement of a promise
\* takes effect
Settle(promise, settlement) ==
  IF promise.state = "pending" THEN settlement ELSE promise

\* The state when the one chat request has been written (req.end()) and the
\* response's handlers are registered
Registered ==
  /\ pos = 0
  /\ buffer = <<>>
  /\ phase = "open"
  /\ delivered = <<>>
  /\ lastBatch = <<>>
  /\ lastMarker = "none"
  /\ handed = <<>>
  /\ consumed = <<>>
  /\ errorData = <<>>
  /\ result = Pending
  /\ outcome = "none"
  /\ requests = 1
  /\ pending = Undefined

\* The data handler of the non-200 branch: errorData += chunk
ErrorDataHandler(chunk) ==
  errorData' = IF resStatusCode # 200 THEN errorData \o chunk ELSE errorData

\* The try block of the data handler, parsed being parseResp(buffer)
DataParsed(parsed) ==
  /\ OnResponse(Tagged(parsed.parsedMessages, Len(consumed)), "data")
  /\ buffer' = NextBuffer(parsed)
  /\ handed' = handed \o parsed.frames
  /\ consumed' = consumed \o parsed.respMessages
  /\ pending' = parsed.acc

\* res.on("data", (chunk) => ...): the transport hands over the next n
\* characters of the stream.  parseResp is called with the buffer alone, so
\* its incompleteResult is undefined.
DataHandler(n) ==
  /\ phase = "open"
  /\ pos + n <= Len(stream)
  /\ DataParsed(ParseToOllamaResp(
                  FeedBuffer(buffer, SubSeq(stream, pos + 1, pos + n)),
                  Undefined))
  /\ ErrorDataHandler(SubSeq(stream, pos + 1, pos + n))
  /\ pos' = pos + n
  /\ UNCHANGED <<stream, phase, resStatusCode, result, outcome, requests,
                 authVars, hostVars>>

\* The try block of the end handler, parsed being parseResp(buffer)
EndParsed(parsed) ==
  /\ OnResponse(Tagged(parsed.parsedMessages, Len(consumed)), "end")
  /\ handed' = handed \o parsed.frames
  /\ consumed' = consumed \o parsed.respMessages
  /\ pending' = parsed.acc

\* The end handler of the non-200 branch, which runs first, and the
\* resolve({ success: true }) that closes the second end handler
EndSettled ==
  result' = Settle(IF resStatusCode # 200
                     THEN Settle(result, StatusError(resStatusCode, errorData))
                     ELSE result,
                   Resolved)

\* res.on("end", () => ...), both handlers
EndHandler ==
  /\ phase = "open"
  /\ pos = Len(stream)
  /\ EndParsed(ParseToOllamaResp(buffer, Undefined))
  /\ EndSettled
  /\ phase' = "ended"
  /\ UNCHANGED <<stream, pos, buffer, resStatusCode, errorData, outcome,
                 requests, authVars, hostVars>>

\* new Error(`${respProcErrorMsg}: ${error.message}`)
ProcError == [state |-> "rejected", error |-> "Failed to parse response",
              code |-> 0, body |-> <<>>]

\* new Error(`${reqErrorMsg}: ${error.message}`)
RequestFailed ==
  [state |-> "rejected", error |-> "Error making request to endpoint",
   code |-> 0, body |-> <<>>]

\* res.on("data", ...) when the try block throws: the sink onResponse
\* throws, so that `buffer = parsed.remainBuffer` is not reached, and the
\* catch clause rejects
DataHandlerThrowing(n) ==
  /\ phase = "open"
  /\ pos + n <= Len(stream)
  /\ buffer' = FeedBuffer(buffer, SubSeq(stream, pos + 1, pos + n))
  /\ pending' = ParseToOllamaResp(buffer', Undefined).acc
  /\ result' = Settle(result, ProcError)
  /\ ErrorDataHandler(SubSeq(stream, pos + 1, pos + n))
  /\ pos' = pos + n
  /\ UNCHANGED <<stream, phase, delivered, lastBatch, lastMarker, handed,
                 consumed, resStatusCode, outcome, requests, authVars,
                 hostVars>>

\* res.on("end", ...) when the try block throws: the catch clause rejects,
\* and resolve({ success: true }) follows
EndHandlerThrowing ==
  /\ phase = "open"
  /\ pos = Len(stream)
  /\ pending' = ParseToOllamaResp(buffer, Undefined).acc
  /\ result' = Settle(Settle(IF resStatusCode # 200
                               THEN Settle(result, StatusError(resStatusCode,
                                                               errorData))
                               ELSE result,
                             ProcError),
                      Resolved)
  /\ phase' = "ended"
  /\ UNCHANGED <<stream, pos, buffer, delivered, lastBatch, lastMarker,
                 handed, consumed, resStatusCode, errorData, outcome,
                 requests, authVars, hostVars>>

\* req.on("error", ...): the connection fails before a response arrives
RequestError ==
  /\ phase = "open"
  /\ pos = 0
  /\ result' = Settle(result, RequestFailed)
  /\ phase' = "error"
  /\ UNCHANGED <<stream, pos, buffer, delivered, lastBatch, lastMarker,
                 handed, consumed, resStatusCode, errorData, outcome,
                 requests, pending, authVars, hostVars>>

\* #doSendRequest with no catch clause: a rejection leaves it as an
\* exception (a faulty variant)
DoSendReturnRethrows ==
  /\ result.state # "pending"
  /\ outcome = "none"
  /\ outcome' = IF result.state = "resolved" THEN "success" ELSE "thrown"
  /\ UNCHANGED <<stream, pos, buffer, phase, delivered, lastBatch,
                 lastMarker, handed, consumed, resStatusCode, errorData, result,
                 requests, pending, authVars, hostVars>>

\* #doSendRequest after `await sendHttpStreamingRequest(...)`: the resolved
\* value is returned, a rejection is caught and returned as
\* { success: false, error: error.message }; nothing is sent again
DoSendReturn ==
  /\ result.state # "pending"
  /\ outcome = "none"
  /\ outcome' = IF result.state = "resolved" THEN "success" ELSE "failure"
  /\ UNCHANGED <<stream, pos, buffer, phase, delivered, lastBatch,
                 lastMarker, handed, consumed, resStatusCode, errorData, result,
                 requests, pending, authVars, hostVars>>

-----------------------------------------------------------------------------
(* The credential.  Time is counted in minutes.                            *)

\* server.js: setInterval(..., 29 * 60 * 1000)
RefreshInterval == 29

\* server.js: "Token expires in 30 minutes"
TokenLifetime == 30

\* The callers of CopilotAuth: the server's setup, its timer, a chat
\* request, and the command line program ghcp.js
Procs == {"setup", "timer", "req", "cli"}

\* github-token.json is absent
NoFile == [exists |-> FALSE, token |-> 0, endpoint |-> 0, expires_at |-> 0]

\* The token of a github-token.json written by an earlier run of the program
EarlierToken == 100

\* The token data of exchange number id, expiring at exp (0: no expires_at)
Credential(id, exp) ==
  [exists |-> TRUE, token |-> id, endpoint |-> id, expires_at |-> exp]

\* The verdict taken once, at the program's start, and kept (a faulty
\* variant)
CheckTokenExpiredCached(tokenData, t) ==
  IF tokenData.expires_at # 0 THEN tokenData.expires_at < 2 ELSE FALSE

\* CopilotAuth.#checkTokenExpired, at time t
CheckTokenExpired(tokenData, t) ==
  IF tokenData.expires_at # 0 THEN tokenData.expires_at < t ELSE FALSE

\* A github-token.json whose content JSON.parse rejects
Unreadable ==
  [exists |-> TRUE, token |-> -1, endpoint |-> -1, expires_at |-> 0]

\* A github-token.json with a token and no endpoints.api
NoEndpoint ==
  [exists |-> TRUE, token |-> EarlierToken, endpoint |-> 0, expires_at |-> 0]

\* status.tokenValid of checkStatus, at time t: false when the file is
\* absent or its content does not parse
TokenValid(s, t) == s.exists /\ s # Unreadable /\ ~CheckTokenExpired(s, t)

\* What getGithubToken() returns from its catch clause
Null == [token |-> -1, endpoint |-> -1]

\* getGithubToken(): { token, endpoint } of the file, read in one piece
\* (0: null)
GetGithubToken(s) ==
  IF s = Unreadable THEN Null
  ELSE IF s.exists THEN [token |-> s.token, endpoint |-> s.endpoint]
  ELSE [token |-> 0, endpoint |-> 0]

\* The file updated field by field, its endpoint left for later (a faulty
\* variant)
WriteTokenOnly(old, tokenData) ==
  IF old.exists THEN [tokenData EXCEPT !.endpoint = old.endpoint]
  ELSE tokenData

\* fs.writeFileSync(this.githubTokenPath, JSON.stringify(tokenData.data)):
\* the file's content is replaced as a whole
WriteFileSync(old, tokenData) == tokenData

\* sendHttpRequest resolving whatever the status code (a faulty variant)
HttpResolvesAny(statusCode) == TRUE

\* sendHttpRequest: res.statusCode === 200 resolves, anything else rejects
HttpResolves(statusCode) == statusCode = 200

Idle == [pc |-> "idle", force |-> FALSE, valid |-> FALSE, ret |-> FALSE,
         returned |-> FALSE, expiredAtCall |-> FALSE, nExch |-> 0, xid |-> 0,
         lastExchange |-> 0, authenticated |-> FALSE, flows |-> 0,
         confirm |-> "none", notified |-> FALSE]

NotSent == [made |-> FALSE, token |-> 0, endpoint |-> 0, expired |-> FALSE,
            error |-> ""]

\* sendStreamingRequest returns { success: false, error }
Failed(error) == [NotSent EXCEPT !.error = error]

\* The callers of CopilotLSPClient.start()
Callers == {"a", "b"}

\* A caller that has not called start(), or whose call is over
NotStarted == [pc |-> "idle", conn |-> 0, answered |-> FALSE]

\* constructor(): nothing spawned, nothing connected
LspBoot ==
  /\ initialized = FALSE
  /\ connection = 0
  /\ childProcess = 0
  /\ children = <<>>
  /\ starts = [c \in Callers |-> NotStarted]
  /\ lspCalls = 0
  /\ lspSent = 0
  /\ lastRequest = "none"

\* model-config.json does not exist
NoConfig == "none"

\* getCurrentModel() has not been called
NotAsked == [success |-> FALSE, modelConfig |-> NoConfig, error |-> ""]

\* No request has reached the server, and no model has been selected
SrvBoot ==
  /\ chatHandler = "awaiting"
  /\ gate = "none"
  /\ modelFile = NoConfig
  /\ currentModel = NotAsked

HostBoot == LspBoot /\ SrvBoot

\* Before the server's setup, with whatever an earlier run left on disk
AuthBoot ==
  /\ HostBoot
  /\ now = 2
  /\ exchanges = 0
  /\ exchangeFailed = FALSE
  /\ copilotStatus = "null"
  /\ nextTick = 0
  /\ local = [p \in Procs |-> Idle]
  /\ lastSent = NotSent

AuthInit ==
  /\ stream = <<>>
  /\ resStatusCode = 200
  /\ Registered
  /\ AuthBoot
  /\ store \in {NoFile} \cup {Credential(EarlierToken, exp) : exp \in {0, 1, 5}}
  /\ lspUser \in BOOLEAN
  /\ oauth \in BOOLEAN

\* signIn(force) up to its first await, the request of checkStatus
CallSignIn(p, force) ==
  local' = [local EXCEPT ![p] =
              [Idle EXCEPT !.pc = "status", !.force = force,
                           !.expiredAtCall = CheckTokenExpired(store, now)]]

\* signIn returning false whatever it did (a faulty variant)
ReturnFalse(l, r) == [l EXCEPT !.pc = "after", !.ret = FALSE, !.returned = TRUE]

\* signIn returns r; its caller goes on to await checkStatus()
Return(l, r) == [l EXCEPT !.pc = "after", !.ret = r, !.returned = TRUE]

\* #fetchAndStoreGitHubToken up to its await: without an OAuth token it
\* throws, and signIn returns false; with one the exchange request is issued
Fetch(l, hasOauth, serial) ==
  IF ~hasOauth THEN Return(l, FALSE)
  ELSE [l EXCEPT !.pc = "exchange", !.nExch = @ + 1, !.xid = serial]

\* setupCopilotChat: await authClient.signIn(true)
SetupStart ==
  /\ copilotStatus = "null"
  /\ local["setup"].pc = "idle"
  /\ CallSignIn("setup", TRUE)
  /\ UNCHANGED <<now, store, lspUser, oauth, exchanges, exchangeFailed,
                 copilotStatus,
                 nextTick, lastSent, streamVars, hostVars>>

\* The callback of authRefreshInterval: await authClient.signIn()
Tick ==
  /\ nextTick # 0
  /\ now = nextTick
  /\ local["timer"].pc = "idle"
  /\ CallSignIn("timer", FALSE)
  /\ nextTick' = nextTick + RefreshInterval
  /\ UNCHANGED <<now, store, lspUser, oauth, exchanges, exchangeFailed,
                 copilotStatus,
                 lastSent, streamVars, hostVars>>

\* #doSendRequest: the token is read and the chat request issued.  hasModel
\* is whether options.model || defaultModel.modelConfig.modelId yields a
\* value: with no options.model and no model configuration it throws a
\* TypeError, which the catch clause returns as { success: false, error }
DoSendRequest(hasModel) ==
  lastSent' =
    IF GetGithubToken(store).token = 0
      THEN Failed("Could not determine GitHub token")
    ELSE IF GetGithubToken(store).endpoint = 0
      THEN Failed("Could not determine API endpoint")
    ELSE IF ~hasModel
      THEN Failed("Cannot read properties of undefined")
    ELSE [made |-> TRUE,
          token |-> GetGithubToken(store).token,
          endpoint |-> GetGithubToken(store).endpoint,
          expired |-> CheckTokenExpired(store, now),
          error |-> ""]

\* sendStreamingRequest(messages, onResponse, options, tools, refreshToken)
\* up to its first await on the network.  Destructuring the null that
\* getGithubToken() returns for an unreadable file throws a TypeError, which
\* the catch clause returns as { success: false, error }
SendStreamingRequest(refreshToken, hasModel) ==
  /\ local["req"].pc = "idle"
  /\ IF GetGithubToken(store) = Null
       THEN /\ lastSent' = Failed("Cannot destructure property 'token'")
            /\ local' = [local EXCEPT !["req"] =
                            [Idle EXCEPT !.returned = TRUE]]
     ELSE IF GetGithubToken(store).token # 0
       THEN /\ DoSendRequest(hasModel)
            /\ local' = [local EXCEPT !["req"] =
                 [Idle EXCEPT !.returned = TRUE,
                              !.expiredAtCall = CheckTokenExpired(store, now)]]
     ELSE IF refreshToken
       THEN /\ lastSent' = NotSent
            /\ CallSignIn("req", TRUE)
       ELSE /\ lastSent' = Failed("GitHub token not valid")
            /\ local' = [local EXCEPT !["req"] =
                            [Idle EXCEPT !.returned = TRUE]]
  /\ UNCHANGED <<now, store, lspUser, oauth, exchanges, exchangeFailed,
                 copilotStatus,
                 nextTick, streamVars, hostVars>>

\* signIn after `await this.checkStatus()`: ok is whether the language
\* server answered the request
StatusChecked(p, ok) ==
  /\ local[p].pc = "status"
  /\ LET authenticated == ok /\ lspUser
         l == [local[p] EXCEPT !.valid = TokenValid(store, now),
                               !.authenticated = authenticated]
     IN /\ local' = [local EXCEPT ![p] =
             IF authenticated /\ l.valid /\ ~l.force THEN Return(l, TRUE)
             ELSE IF ~authenticated
               THEN [l EXCEPT !.pc = "github", !.flows = @ + 1]
             ELSE Fetch(l, oauth, exchanges + 1)]
        /\ exchanges' = IF authenticated /\ ~(l.valid /\ ~l.force) /\ oauth
                          THEN exchanges + 1 ELSE exchanges
        /\ authenticated /\ ~(l.valid /\ ~l.force) /\ oauth
             => exchanges < MaxExchanges
  /\ UNCHANGED <<now, store, lspUser, oauth, exchangeFailed, copilotStatus,
                 nextTick, lastSent, streamVars, hostVars>>

\* #signInGithHub going on whatever signInConfirm answered (a faulty
\* variant)
ConfirmedAny(ok) == TRUE

\* #signInGithHub returns, rather than throws: ok is whether signInInitiate
\* answered with a user code and signInConfirm with the status "OK"
Confirmed(ok) == ok

\* signIn after `await this.#signInGithHub()`
SignedInGitHub(p, ok) ==
  /\ local[p].pc = "github"
  /\ LET l == [local[p] EXCEPT !.confirm = IF ok THEN "ok" ELSE "failed"]
         fetch == ~l.valid \/ l.force
     IN IF Confirmed(ok)
          THEN /\ lspUser' = TRUE
               /\ oauth' = TRUE
               /\ local' = [local EXCEPT ![p] =
                    IF fetch THEN Fetch(l, TRUE, exchanges + 1)
                    ELSE [l EXCEPT !.pc = "final"]]
               /\ exchanges' = IF fetch THEN exchanges + 1 ELSE exchanges
               /\ fetch => exchanges < MaxExchanges
          ELSE /\ local' = [local EXCEPT ![p] = Return(l, FALSE)]
               /\ UNCHANGED <<lspUser, oauth, exchanges>>
  /\ UNCHANGED <<now, store, exchangeFailed, copilotStatus, nextTick,
                 lastSent, streamVars, hostVars>>

\* #fetchAndStoreGitHubToken after `await this.#requestGitHubToken()`: the
\* exchange answered with statusCode (0: the connection failed)
Exchanged(p, statusCode) ==
  /\ local[p].pc = "exchange"
  /\ LET l == [local[p] EXCEPT !.lastExchange = statusCode]
     IN IF statusCode # 0 /\ HttpResolves(statusCode)
          THEN /\ store' = WriteFileSync(store,
                                         Credential(l.xid, now + TokenLifetime))
               /\ local' = [local EXCEPT ![p] = [l EXCEPT !.pc = "final"]]
               /\ exchangeFailed' = exchangeFailed
          ELSE /\ store' = store
               /\ local' = [local EXCEPT ![p] = Return(l, FALSE)]
               /\ exchangeFailed' = TRUE
  /\ UNCHANGED <<now, lspUser, oauth, exchanges, copilotStatus, nextTick,
                 lastSent, streamVars, hostVars>>

\* signIn after `const finalStatus = await this.checkStatus()`
FinalChecked(p, ok) ==
  /\ local[p].pc = "final"
  /\ local' = [local EXCEPT ![p] =
                 Return(@, ok /\ lspUser /\ TokenValid(store, now))]
  /\ UNCHANGED <<now, store, lspUser, oauth, exchanges, exchangeFailed,
                 copilotStatus,
                 nextTick, lastSent, streamVars, hostVars>>

\* setupCopilotChat after `const status = await authClient.checkStatus()`
SetupChecked(ok) ==
  /\ local["setup"].pc = "after"
  /\ local' = [local EXCEPT !["setup"] = Idle]
  /\ IF ok /\ lspUser /\ TokenValid(store, now)
       THEN /\ nextTick' = now + RefreshInterval
            /\ copilotStatus' = "ready"
       ELSE /\ nextTick' = nextTick
            /\ copilotStatus' = "auth"
  /\ UNCHANGED <<now, store, lspUser, oauth, exchanges, exchangeFailed,
                 lastSent, streamVars, hostVars>>

\* The timer's callback clearing the interval when the status it finds is
\* not good (a faulty variant)
TimerCheckedDisarming(ok) ==
  /\ local["timer"].pc = "after"
  /\ local' = [local EXCEPT !["timer"] = Idle]
  /\ nextTick' = IF ok /\ lspUser /\ TokenValid(store, now) THEN nextTick
                 ELSE 0
  /\ UNCHANGED <<now, store, lspUser, oauth, exchanges, exchangeFailed,
                 copilotStatus, lastSent, streamVars, hostVars>>

\* The timer's callback after `const status = await authClient.checkStatus()`:
\* it logs
TimerChecked(ok) ==
  /\ local["timer"].pc = "after"
  /\ local' = [local EXCEPT !["timer"] = Idle]
  /\ UNCHANGED <<now, store, lspUser, oauth, exchanges, exchangeFailed,
                 copilotStatus,
                 nextTick, lastSent, streamVars, hostVars>>

\* Every status passes (a faulty variant)
NewStatusAny(authenticated, tokenValid) == TRUE

\* !(!newStatus.authenticated || !newStatus.tokenValid)
NewStatusOk(authenticated, tokenValid) == authenticated /\ tokenValid

\* sendStreamingRequest after `const newStatus = await this.auth.checkStatus()`
RequestChecked(ok, hasModel) ==
  /\ local["req"].pc = "after"
  /\ local' = [local EXCEPT !["req"] = Idle]
  /\ IF NewStatusOk(ok /\ lspUser, TokenValid(store, now))
       THEN DoSendRequest(hasModel)
       ELSE lastSent' = Failed("Failed to sign in and refresh GitHub token")
  /\ UNCHANGED <<now, store, lspUser, oauth, exchanges, exchangeFailed,
                 copilotStatus,
                 nextTick, streamVars, hostVars>>

\* A minute passes.  The server's setup completes within its minute; after
\* it minutes pass while a caller awaits the device flow or the token
\* exchange; a request to the local language server is answered within the
\* minute, and a due timer fires before the clock moves on.
Advance ==
  /\ now < MaxTime
  /\ copilotStatus # "null"
  /\ \A p \in Procs : local[p].pc \in {"idle", "github", "exchange"}
  /\ nextTick = 0 \/ now < nextTick
  /\ now' = now + 1
  /\ UNCHANGED <<store, lspUser, oauth, exchanges, exchangeFailed,
                 copilotStatus, nextTick,
                 local, lastSent, streamVars, hostVars>>

AuthNext ==
  \/ SetupStart
  \/ Tick
  \/ \E refreshToken, hasModel \in BOOLEAN :
       SendStreamingRequest(refreshToken, hasModel)
  \/ \E p \in Procs, ok \in BOOLEAN : StatusChecked(p, ok)
  \/ \E p \in Procs, ok \in BOOLEAN : SignedInGitHub(p, ok)
  \/ \E p \in Procs, statusCode \in {200, 401, 0} : Exchanged(p, statusCode)
  \/ \E p \in Procs, ok \in BOOLEAN : FinalChecked(p, ok)
  \/ \E ok \in BOOLEAN : SetupChecked(ok)
  \/ \E ok \in BOOLEAN : TimerChecked(ok)
  \/ \E ok, hasModel \in BOOLEAN : RequestChecked(ok, hasModel)
  \/ Advance

AuthSpec == AuthInit /\ [][AuthNext]_vars

-----------------------------------------------------------------------------
(* The command line program ghcp.js: one command after the other, each a   *)
(* run of the program, sharing the files and the language server's state.  *)

\* case "signin": await auth.signIn()
CliSignIn ==
  /\ local["cli"].pc = "idle"
  /\ CallSignIn("cli", FALSE)
  /\ UNCHANGED <<now, store, lspUser, oauth, exchanges, exchangeFailed,
                 copilotStatus, nextTick, lastSent, streamVars, hostVars>>

\* case "signout": await auth.signOut(), up to its await of checkStatus
CliSignOut ==
  /\ local["cli"].pc = "idle"
  /\ local' = [local EXCEPT !["cli"] = [Idle EXCEPT !.pc = "outstatus"]]
  /\ UNCHANGED <<now, store, lspUser, oauth, exchanges, exchangeFailed,
                 copilotStatus, nextTick, lastSent, streamVars, hostVars>>

\* signOut after `await this.checkStatus(...)`: ok is whether the language
\* server answered the request; status.user is the user it reports
SignOutChecked(ok) ==
  /\ local["cli"].pc = "outstatus"
  /\ LET l == [local["cli"] EXCEPT !.authenticated = ok /\ lspUser]
     IN local' = [local EXCEPT !["cli"] =
                    IF ~l.authenticated
                      THEN [l EXCEPT !.pc = "out", !.ret = TRUE,
                                     !.returned = TRUE]
                      ELSE [l EXCEPT !.pc = "outrequest"]]
  /\ UNCHANGED <<now, store, lspUser, oauth, exchanges, exchangeFailed,
                 copilotStatus, nextTick, lastSent, streamVars, hostVars>>

\* signOut after `await this.lspClient.request("signOut", {})`: ok is
\* whether the language server answered; it then forgets the user, and
\* github-token.json is unlinked if it exists
SignedOut(ok) ==
  /\ local["cli"].pc = "outrequest"
  /\ IF ok
       THEN /\ lspUser' = FALSE
            /\ oauth' \in {oauth, FALSE}
            /\ store' = NoFile
            /\ local' = [local EXCEPT !["cli"] =
                            [@ EXCEPT !.pc = "out", !.ret = TRUE,
                                      !.returned = TRUE, !.notified = TRUE]]
       ELSE /\ local' = [local EXCEPT !["cli"] =
                            [@ EXCEPT !.pc = "out", !.ret = FALSE,
                                      !.returned = TRUE]]
            /\ UNCHANGED <<lspUser, oauth, store>>
  /\ UNCHANGED <<now, exchanges, exchangeFailed, copilotStatus, nextTick,
                 lastSent, streamVars, hostVars>>

\* The command is done, main() returns
CliDone ==
  /\ local["cli"].pc \in {"after", "out"}
  /\ local' = [local EXCEPT !["cli"] = Idle]
  /\ UNCHANGED <<now, store, lspUser, oauth, exchanges, exchangeFailed,
                 copilotStatus, nextTick, lastSent, streamVars, hostVars>>

\* A minute passes, between two commands or while a command awaits the
\* device flow or the token exchange
Elapse ==
  /\ now < MaxTime
  /\ local["cli"].pc \in {"idle", "github", "exchange"}
  /\ now' = now + 1
  /\ UNCHANGED <<store, lspUser, oauth, exchanges, exchangeFailed,
                 copilotStatus, nextTick, local, lastSent, streamVars,
                 hostVars>>

CliNext ==
  \/ CliSignIn
  \/ CliSignOut
  \/ \E ok \in BOOLEAN : SignOutChecked(ok)
  \/ \E ok \in BOOLEAN : SignedOut(ok)
  \/ \E ok \in BOOLEAN : StatusChecked("cli", ok)
  \/ \E ok \in BOOLEAN : SignedInGitHub("cli", ok)
  \/ \E statusCode \in {200, 401, 0} : Exchanged("cli", statusCode)
  \/ \E ok \in BOOLEAN : FinalChecked("cli", ok)
  \/ CliDone
  \/ Elapse

CliSpec == AuthInit /\ [][CliNext]_vars

-----------------------------------------------------------------------------
(* The specifications of the streaming response *)

\* No credential activity while a response streams
AuthQuiet == AuthBoot /\ store = NoFile /\ lspUser = FALSE /\ oauth = FALSE

\* A response with status 200
Ok == resStatusCode = 200 /\ Registered /\ AuthQuiet

StreamInit == stream \in StreamTexts /\ Ok

ToolInit == stream \in ToolTexts /\ Ok

StreamNext ==
  \/ \E n \in 1..(Len(stream) - pos) : DataHandler(n)
  \/ EndHandler
  \/ DoSendReturn

StreamSpec == StreamInit /\ [][StreamNext]_vars

(* An answer in which frames with an undecodable payload occur *)

MalformedCatalogue == {FrameHi, FrameBad, FrameDone}

MalformedTexts ==
  {Join(fs, c) :
     fs \in UNION {[1..n -> MalformedCatalogue] : n \in 0..MaxFrames},
     c \in BOOLEAN}

MalformedInit == stream \in MalformedTexts /\ Ok

MalformedSpec == MalformedInit /\ [][StreamNext]_vars

BadArgsInit == stream \in BadArgsTexts /\ Ok

BadArgsSpec == BadArgsInit /\ [][StreamNext]_vars

LinesInit == stream \in LinesTexts /\ Ok

LinesSpec == LinesInit /\ [][StreamNext]_vars

TwoCallInit == stream \in TwoCallTexts /\ Ok

TwoCallSpec == TwoCallInit /\ [][StreamNext]_vars

(* An answer that reports its usage counters *)

UsageCatalogue == {FrameHi, FrameStopUsage, FrameDone}

UsageTexts ==
  {Join(fs, c) :
     fs \in UNION {[1..n -> UsageCatalogue] : n \in 0..MaxFrames},
     c \in BOOLEAN}

UsageInit == stream \in UsageTexts /\ Ok

UsageSpec == UsageInit /\ [][StreamNext]_vars

(* A response with a non-success status: its body is any text of up to     *)
(* MaxBody characters.                                                     *)

ErrorCodes == {401, 500}

BodyChars == {"e", "\"", "\n"}

ErrorBodies == UNION {[1..n -> BodyChars] : n \in 0..MaxBody}

ErrorInit ==
  /\ stream \in ErrorBodies
  /\ resStatusCode \in ErrorCodes
  /\ Registered
  /\ AuthQuiet

ErrorSpec == ErrorInit /\ [][StreamNext]_vars

ToolSpec == ToolInit /\ [][StreamNext]_vars

-----------------------------------------------------------------------------
(* One chat request from its call to its return: the credential is read,   *)
(* the forced sign-in is run where no token is stored, the request is      *)
(* issued and its response streamed.                                       *)

FailTexts == {Join(<<FrameHi, FrameDone>>, TRUE), Join(<<FrameBad>>, FALSE)}

FailInit ==
  /\ stream \in FailTexts
  /\ resStatusCode \in {200} \cup ErrorCodes
  /\ Registered
  /\ AuthBoot
  /\ store \in {NoFile, Unreadable, NoEndpoint, Credential(EarlierToken, 0)}
  /\ lspUser \in BOOLEAN
  /\ oauth \in BOOLEAN

\* The call of sendStreamingRequest
FirstRequest(refreshToken, hasModel) ==
  /\ lastSent = NotSent
  /\ local["req"] = Idle
  /\ SendStreamingRequest(refreshToken, hasModel)

\* Whether #doSendRequest has issued the request, whose events then occur
Issued == lastSent.made

FailNext ==
  \/ \E refreshToken, hasModel \in BOOLEAN :
       FirstRequest(refreshToken, hasModel)
  \/ \E ok \in BOOLEAN : StatusChecked("req", ok)
  \/ \E ok \in BOOLEAN : SignedInGitHub("req", ok)
  \/ \E statusCode \in {200, 401, 0} : Exchanged("req", statusCode)
  \/ \E ok \in BOOLEAN : FinalChecked("req", ok)
  \/ \E ok, hasModel \in BOOLEAN : RequestChecked(ok, hasModel)
  \/ Issued /\ \E n \in 1..(Len(stream) - pos) : DataHandler(n)
  \/ Issued /\ \E n \in 1..(Len(stream) - pos) : DataHandlerThrowing(n)
  \/ Issued /\ EndHandler
  \/ Issued /\ EndHandlerThrowing
  \/ Issued /\ RequestError
  \/ DoSendReturn

FailSpec == FailInit /\ [][FailNext]_vars

-----------------------------------------------------------------------------
(* server.js handleChatRequest around one streaming request.  Its sink     *)
(* writes each message to the HTTP response and calls res.end() when the   *)
(* marker is "end"; the handler itself writes an error and calls res.end() *)
(* when sendStreamingRequest returns { success: false }.                   *)

\* `await chatClient.sendStreamingRequest(...)` has a value to continue with
ChatResultKnown == outcome # "none" \/ (lastSent # NotSent /\ ~lastSent.made)

\* handleChatRequest after the await: if (!chatResult.success) it writes the
\* error to the response and ends it
ChatHandlerReturns ==
  /\ chatHandler = "awaiting"
  /\ ChatResultKnown
  /\ chatHandler' = IF outcome = "success" THEN "returned" ELSE "ended"
  /\ UNCHANGED <<gate, modelFile, currentModel, lspVars, streamVars,
                 authVars>>

\* How many times the sink has called res.end(): once, at the marker "end"
SinkEnds == IF lastMarker = "end" THEN 1 ELSE 0

\* How many times the handler has called res.end() after the await
HandlerEnds == IF chatHandler = "ended" THEN 1 ELSE 0

\* The handler's res.write of the error came after the sink's res.end()
WrittenAfterEnd == chatHandler = "ended" /\ lastMarker = "end"

ServeNext ==
  \/ \E refreshToken, hasModel \in BOOLEAN :
       FirstRequest(refreshToken, hasModel)
  \/ \E ok \in BOOLEAN : StatusChecked("req", ok)
  \/ \E ok \in BOOLEAN : SignedInGitHub("req", ok)
  \/ \E statusCode \in {200, 401, 0} : Exchanged("req", statusCode)
  \/ \E ok \in BOOLEAN : FinalChecked("req", ok)
  \/ \E ok, hasModel \in BOOLEAN : RequestChecked(ok, hasModel)
  \/ Issued /\ \E n \in 1..(Len(stream) - pos) : DataHandler(n)
  \/ Issued /\ EndHandler
  \/ Issued /\ RequestError
  \/ DoSendReturn
  \/ ChatHandlerReturns

ServeSpec == FailInit /\ [][ServeNext]_vars

-----------------------------------------------------------------------------
(* The model selection: CopilotModels, and the commands getmodel and       *)
(* setmodel of ghcp.js.                                                    *)

\* The ids of the models the endpoint may list
Models == {"gpt-4o", "o1"}

\* getCurrentModel(): the content of model-config.json when it exists, and
\* { success: false, error } when it does not; nothing is written
GetCurrentModel(file) ==
  IF file # NoConfig
    THEN [success |-> TRUE, modelConfig |-> file, error |-> ""]
    ELSE [success |-> FALSE, modelConfig |-> NoConfig,
          error |-> "Model configuration file not found."]

\* getAvailableModels(): the models the endpoint lists, and none when the
\* status check fails or the credential has no token or no endpoint
GetAvailableModels(ok, catalogue) ==
  IF /\ ok /\ lspUser /\ TokenValid(store, now)
     /\ GetGithubToken(store).token # 0
     /\ GetGithubToken(store).endpoint # 0
    THEN catalogue
    ELSE {}

\* case "getmodel": await models.getCurrentModel()
CliGetModel ==
  /\ local["cli"].pc = "idle"
  /\ currentModel' = GetCurrentModel(modelFile)
  /\ UNCHANGED <<chatHandler, gate, modelFile, lspVars, streamVars,
                 authVars>>

\* case "setmodel": await models.setModel(modelId), which writes
\* model-config.json when the model is among the available ones
CliSetModel(modelId, ok, catalogue) ==
  /\ local["cli"].pc = "idle"
  /\ modelFile' = IF modelId \in GetAvailableModels(ok, catalogue)
                    THEN modelId
                    ELSE modelFile
  /\ UNCHANGED <<chatHandler, gate, currentModel, lspVars, streamVars,
                 authVars>>

ModelNext ==
  \/ CliSignIn
  \/ \E ok \in BOOLEAN : StatusChecked("cli", ok)
  \/ \E ok \in BOOLEAN : SignedInGitHub("cli", ok)
  \/ \E statusCode \in {200, 401, 0} : Exchanged("cli", statusCode)
  \/ \E ok \in BOOLEAN : FinalChecked("cli", ok)
  \/ CliDone
  \/ CliGetModel
  \/ \E modelId \in Models, ok \in BOOLEAN, catalogue \in SUBSET Models :
       CliSetModel(modelId, ok, catalogue)

ModelSpec == AuthInit /\ [][ModelNext]_vars

-----------------------------------------------------------------------------
(* server.js: requests arriving while and after setupCopilotChat runs.     *)

\* setupCopilotChat when lspClient.start() throws: the catch clause sets
\* copilotStatus = { ready: false, error: "unknown" }
SetupFails ==
  /\ copilotStatus = "null"
  /\ local["setup"].pc = "idle"
  /\ copilotStatus' = "unknown"
  /\ UNCHANGED <<now, store, lspUser, oauth, exchanges, exchangeFailed,
                 nextTick, local, lastSent, streamVars, hostVars>>

\* What becomes of a request whose ensureCopilotSetup throws: the middleware
\* is an async function, so the TypeError rejects the promise it returns.
\* Express 4 drops that promise and the request stays unanswered; Express 5
\* passes the rejection to the error middleware, which answers 500.
Rejections == {"unanswered", "500"}

\* ensureCopilotSetup(req, res, next): reading copilotStatus.ready throws a
\* TypeError while copilotStatus is still null
EnsureCopilotSetup(rejection) ==
  /\ gate' = CASE copilotStatus = "null" -> rejection
               [] copilotStatus = "ready" -> "next"
               [] copilotStatus = "auth" -> "401"
               [] OTHER -> "500"
  /\ UNCHANGED <<chatHandler, modelFile, currentModel, lspVars, streamVars,
                 authVars>>

GateNext ==
  \/ SetupStart
  \/ SetupFails
  \/ \E ok \in BOOLEAN : StatusChecked("setup", ok)
  \/ \E ok \in BOOLEAN : SignedInGitHub("setup", ok)
  \/ \E statusCode \in {200, 401, 0} : Exchanged("setup", statusCode)
  \/ \E ok \in BOOLEAN : FinalChecked("setup", ok)
  \/ \E ok \in BOOLEAN : SetupChecked(ok)
  \/ \E rejection \in Rejections : EnsureCopilotSetup(rejection)

GateSpec == AuthInit /\ [][GateNext]_vars

-----------------------------------------------------------------------------
(* ghcp.js, case "chat": the sink calls cleanup(), which ends the process, *)
(* at a message with `done`; after the await the program calls             *)
(* process.stdin.resume() and the finally clause skips cleanup().          *)

\* cleanup() has run: process.exit(0)
Exited == \E i \in 1..Len(delivered) : delivered[i].done

ChatNext ==
  \/ ~Exited /\ \E refreshToken, hasModel \in BOOLEAN :
                  FirstRequest(refreshToken, hasModel)
  \/ ~Exited /\ \E ok \in BOOLEAN : StatusChecked("req", ok)
  \/ ~Exited /\ \E ok \in BOOLEAN : SignedInGitHub("req", ok)
  \/ ~Exited /\ \E statusCode \in {200, 401, 0} : Exchanged("req", statusCode)
  \/ ~Exited /\ \E ok \in BOOLEAN : FinalChecked("req", ok)
  \/ ~Exited /\ \E ok, hasModel \in BOOLEAN : RequestChecked(ok, hasModel)
  \/ ~Exited /\ Issued /\ \E n \in 1..(Len(stream) - pos) : DataHandler(n)
  \/ ~Exited /\ Issued /\ EndHandler
  \/ ~Exited /\ Issued /\ RequestError
  \/ ~Exited /\ DoSendReturn

\* Every event that can occur does occur in the end: the servers answer,
\* the transport delivers or fails, and a settled promise is continued
ChatSpec == FailInit /\ [][ChatNext]_vars /\ WF_vars(ChatNext)

-----------------------------------------------------------------------------
(* Properties of the streaming response *)

Received == SubSeq(stream, 1, pos)

\* The text the parser has split off: each segment and its separator
ConsumedText == Concat([i \in 1..Len(consumed) |-> consumed[i] \o Sep])

Untagged(msgs) == [i \in 1..Len(msgs) |-> [msgs[i] EXCEPT !.src = 0]]

DoneIndexes(msgs) == {i \in 1..Len(msgs) : msgs[i].done}

\* The frames worked on when text arrives as one single chunk, and, once
\* the stream has ended, by the end handler after it
WholeFrames(text, ended) ==
  ParseToOllamaResp(text, Undefined).frames
    \o (IF ended
          THEN ParseToOllamaResp(
                 ParseToOllamaResp(text, Undefined).remainBuffer,
                 Undefined).frames
          ELSE <<>>)

\* C3: however the received text was cut into chunks, the frames worked on
\* so far, in order, are those that the same text yields when it is fed as
\* one single chunk.
C3_SplitInvariance == handed = WholeFrames(Received, phase = "ended")

\* C3: the whole stream has arrived in several chunks, the last frame in a
\* chunk of its own after two earlier frames.
C3_Witness ==
  /\ phase = "open"
  /\ pos = Len(stream)
  /\ Len(handed) >= 3
  /\ Len(lastBatch) = 1
  /\ Len(delivered) >= 3

\* The messages the end handler owes the sink when it treats the remaining
\* buffer as a final frame
FlushedMessages(buf) ==
  ParseToOllamaResp(buf \o Sep, Undefined).parsedMessages

\* C4: when the stream ends while the buffer holds non-blank content with
\* no closing separator, that content is normalized as a final frame and
\* its messages are passed to the sink in the 'end' invocation.
C4_FlushAtEnd ==
  (phase = "ended" /\ ~IsBlank(buffer))
    => /\ lastMarker = "end"
       /\ Untagged(lastBatch) = Untagged(FlushedMessages(buffer))

\* Exactly one delivered message has done = true, it is the last one, and
\* it carries no content delta
OneTerminalLast ==
  /\ Cardinality(DoneIndexes(delivered)) = 1
  /\ delivered # <<>>
  /\ delivered[Len(delivered)].done
  /\ delivered[Len(delivered)].content \in {NoContent, ""}

\* Whether a line of the segment is the [DONE] data line
HasDoneLine(seg) == \E i \in 1..Len(Split(seg, Newline)) :
                       Split(seg, Newline)[i] = FrameDone

\* The text holds the [DONE] frame exactly once, as its last frame, closed
\* by the separator
EndsWithSingleDone(text) ==
  /\ Len(Split(text, Sep)) >= 2
  /\ Split(text, Sep)[Len(Split(text, Sep))] = <<>>
  /\ Split(text, Sep)[Len(Split(text, Sep)) - 1] = FrameDone
  /\ \A i \in 1..(Len(Split(text, Sep)) - 2) : ~HasDoneLine(Split(text, Sep)[i])

Payloads(text) ==
  LET lines == Split(Concat([i \in 1..Len(Split(text, Sep)) |->
                               Split(text, Sep)[i] \o Newline]), Newline)
      data  == SelectSeq(lines, LAMBDA l : StartsWith(l, DataPrefix))
  IN [i \in 1..Len(data) |-> Slice(data[i], Len(DataPrefix))]

\* The argument fragments a text carries, concatenated in order
SentArguments(text) ==
  LET ps == SelectSeq(Payloads(text), JsonValid)
  IN Concat([i \in 1..Len(ps) |-> JsonParse(ps[i]).toolArgs])

\* C6: a tool call whose serialized arguments arrive in fragments finalizes,
\* for every number of fragments, every cut and every chunking, to the
\* structure the whole argument string parses to: the terminal message
\* carries the function's name and the parsed arguments.
C6_FragmentsFinalize ==
  phase = "ended"
    => /\ delivered # <<>>
       /\ delivered[Len(delivered)].done
       /\ delivered[Len(delivered)].name = "f"
       /\ delivered[Len(delivered)].arguments
            = ParsedArguments([kind |-> "str", val |-> SentArguments(stream)])

\* C7: the received text is exactly the segments split off, each with its
\* separator, followed by the pending buffer; the buffer holds no whole
\* separator; and the segments worked on are the non-blank ones among those
\* split off, so each had its closing separator received.
C7_PendingOwnership ==
  /\ Received = ConsumedText \o buffer
  /\ Len(Split(buffer, Sep)) = 1
  /\ handed = SelectSeq(consumed, LAMBDA seg : ~IsBlank(seg))

\* C7: frames have been worked on and the buffer holds the start of a frame
\* and the first half of its separator.
C7_Witness ==
  /\ phase = "open"
  /\ handed # <<>>
  /\ Len(buffer) >= 2
  /\ buffer[Len(buffer)] = "\n"

ScenarioText == Join(<<FrameHi, FrameThere, FrameDone>>, TRUE)

ScenarioMessages ==
  <<[done |-> FALSE, content |-> "Hi", name |-> "",
     arguments |-> NoArguments, usage |-> FALSE, src |-> 0],
    [done |-> FALSE, content |-> " there", name |-> "",
     arguments |-> NoArguments, usage |-> FALSE, src |-> 0],
    [done |-> TRUE, content |-> NoContent, name |-> "",
     arguments |-> NoArguments, usage |-> FALSE, src |-> 0]>>

\* C8: the messages delivered over all sink invocations stand in the order
\* of the segments that produced them, each being a message its segment
\* yields; and the stream of the frames 'Hi', ' there', [DONE] has yielded,
\* at its end and for every chunking, the content messages 'Hi' and
\* ' there' followed by one done = true message.
C8_ArrivalOrder ==
  /\ \A i, j \in 1..Len(delivered) :
       i < j => delivered[i].src <= delivered[j].src
  /\ \A i \in 1..Len(delivered) :
       /\ delivered[i].src \in 1..Len(consumed)
       /\ \E m \in Range(FlushedMessages(consumed[delivered[i].src])) :
            [m EXCEPT !.src = 0] = [delivered[i] EXCEPT !.src = 0]
  /\ (stream = ScenarioText /\ phase = "ended")
       => Untagged(delivered) = ScenarioMessages

\* C8: the scenario's stream has ended after its last two frames arrived
\* together in one chunk.
C8_Witness ==
  /\ stream = ScenarioText
  /\ pos = Len(stream)
  /\ lastMarker = "data"
  /\ Len(lastBatch) = 2
  /\ Len(delivered) = 3

\* The string a JSON string literal's inside stands for
RECURSIVE Unescaped(_)
Unescaped(s) ==
  IF s = <<>> THEN <<>>
  ELSE IF Head(s) = "\\" /\ Len(s) >= 2
    THEN <<IF s[2] = "n" THEN "\n" ELSE s[2]>> \o Unescaped(Slice(s, 2))
  ELSE <<Head(s)>> \o Unescaped(Tail(s))

C15_SinkLifecycle ==
  /\ [](/\ Untagged(delivered)
             = Untagged(ParseToOllamaResp(Received, Undefined).parsedMessages)
        /\ lastMarker = "end" <=> phase = "ended"
        /\ lastMarker = "none" <=> pos = 0 /\ phase = "open")
  /\ [][/\ pos' > pos
             => lastMarker' = "data" /\ delivered' = delivered \o lastBatch'
        /\ (phase = "open" /\ phase' = "ended")
             => lastMarker' = "end" /\ delivered' = delivered \o lastBatch'
        /\ lastMarker = "end"
             => UNCHANGED <<delivered, lastBatch, lastMarker>>]_vars

\* C15: two messages were delivered by 'data' invocations, the stream has
\* ended with an empty 'end' invocation and the request has returned.
C15_Witness ==
  /\ phase = "ended"
  /\ lastMarker = "end"
  /\ lastBatch = <<>>
  /\ Len(delivered) >= 2
  /\ outcome = "success"

\* The text without its malformed frames and their separators
WithoutMalformed(text) ==
  LET kept == SelectSeq(Front(Split(text, Sep)), LAMBDA seg : seg # FrameBad)
  IN Concat([i \in 1..Len(kept) |-> kept[i] \o Sep])
       \o Split(text, Sep)[Len(Split(text, Sep))]

\* C16: a frame whose payload does not decode yields no message and leaves
\* the frames around it alone: at every moment, for every chunking, the
\* messages delivered are those the received text yields with its malformed
\* frames taken out; and the stream completes with success.
C16_MalformedDropped ==
  /\ Untagged(delivered)
       = Untagged(ParseToOllamaResp(WithoutMalformed(Received), Undefined)
                    .parsedMessages)
  /\ phase = "ended" => result = Resolved

\* C16: a malformed frame stood between a content frame and the [DONE]
\* frame; both have yielded their messages and the stream has ended.
C16_Witness ==
  /\ stream = Join(<<FrameHi, FrameBad, FrameDone>>, TRUE)
  /\ phase = "ended"
  /\ Len(delivered) = 2
  /\ delivered[1].content = "Hi"
  /\ delivered[2].done
  /\ delivered[2].src = 3

\* The last message the text yields when the accumulator is carried over
\* the whole of it, from the empty accumulator on
CarriedLast(text) ==
  LET msgs == ParseToOllamaResp(text, EmptyObject).parsedMessages
  IN [msgs[Len(msgs)] EXCEPT !.src = 0]

\* C17: once the [DONE] frame has been worked on, exactly one message with
\* done = true has been delivered, it has no content delta, it carries what
\* the accumulator collected over the stream so far (the function's name,
\* the finalized arguments, the usage counters), and the accumulator is
\* empty afterwards.
C17_TerminalFromAccumulator ==
  (handed # <<>> /\ handed[Len(handed)] = FrameDone)
    => /\ Cardinality(DoneIndexes(delivered)) = 1
       /\ delivered[Len(delivered)].done
       /\ delivered[Len(delivered)].content = NoContent
       /\ [delivered[Len(delivered)] EXCEPT !.src = 0] = CarriedLast(Received)
       /\ pending = EmptyObject

\* Whether the frame carries finish_reason "tool_calls"
IsFinishTool(frame) ==
  /\ StartsWith(frame, DataPrefix)
  /\ JsonValid(Slice(frame, Len(DataPrefix)))
  /\ JsonParse(Slice(frame, Len(DataPrefix))).finish = "tool_calls"

\* C19: while only argument fragments have been worked on, the accumulator
\* holds their raw concatenation; once the frame with finish_reason
\* "tool_calls" has been worked on and until [DONE], it holds the structure
\* that string parses to, parsed at that frame and not altered after it.
C19_ParsedOnceAtFinish ==
  /\ (/\ handed # <<>>
      /\ \A i \in 1..Len(handed) :
           ~IsFinishTool(handed[i]) /\ handed[i] # FrameDone)
       => pending.arguments
            = [kind |-> "str", val |-> SentArguments(ConsumedText)]
  /\ (/\ \E i \in 1..Len(handed) : IsFinishTool(handed[i])
      /\ \A i \in 1..Len(handed) : handed[i] # FrameDone)
       => pending.arguments
            = ParsedArguments([kind |-> "str",
                               val |-> SentArguments(ConsumedText)])

\* The payload of a frame made of one data line
PayloadOf(frame) == JsonParse(Slice(frame, Len(DataPrefix)))

\* The argument fragments the text carries for the call index, concatenated
SentArgumentsOf(text, index) ==
  LET ps == SelectSeq(Payloads(text),
                      LAMBDA d : JsonValid(d) /\ JsonParse(d).toolCall
                                   /\ JsonParse(d).toolIndex = index)
  IN Concat([i \in 1..Len(ps) |-> JsonParse(ps[i]).toolArgs])

\* The name the text's first fragment for the call index carries
NameOf(text, index) ==
  LET ps == SelectSeq(Payloads(text),
                      LAMBDA d : JsonValid(d) /\ JsonParse(d).toolCall
                                   /\ JsonParse(d).toolIndex = index)
  IN JsonParse(ps[1]).toolName

\* C18: when the frame worked on last is a fragment of the tool call with
\* index c, the accumulator holds, for that call, the name its first
\* fragment carried and the concatenation of the argument fragments of that
\* call alone, with no fragment of another call in it.
C18_PerCallAccumulation ==
  (/\ handed # <<>>
   /\ handed[Len(handed)] # FrameDone
   /\ PayloadOf(handed[Len(handed)]).toolCall)
    => /\ pending.name
            = NameOf(ConsumedText, PayloadOf(handed[Len(handed)]).toolIndex)
       /\ pending.arguments
            = [kind |-> "str",
               val |-> SentArgumentsOf(ConsumedText,
                         PayloadOf(handed[Len(handed)]).toolIndex)]

\* C20: when a stream that carried a usage frame and then, as its last
\* frame, [DONE] has ended, the terminal message carries the usage counters
\* and no message before it does, for every chunking.
C20_UsageInTerminal ==
  (/\ phase = "ended"
   /\ EndsWithSingleDone(stream)
   /\ \E i \in 1..Len(consumed) : consumed[i] = FrameStopUsage)
    => /\ delivered # <<>>
       /\ delivered[Len(delivered)].done
       /\ delivered[Len(delivered)].usage
       /\ \A i \in 1..(Len(delivered) - 1) : ~delivered[i].usage

\* C21: when the argument string of a tool call does not parse, the stream
\* still completes, with the terminal message delivered last, and the
\* terminal message shows the failure: it carries the argument string as it
\* was accumulated, unparsed.
C21_DecodeFailureSurfaced ==
  (phase = "ended" /\ ~ArgsValid(SentArguments(stream)))
    => /\ result = Resolved
       /\ delivered # <<>>
       /\ delivered[Len(delivered)].done
       /\ delivered[Len(delivered)].arguments
            = [kind |-> "str", val |-> SentArguments(stream)]

\* C22: when the argument string of a tool call does not parse, the
\* streaming request's result is a failure.
C22_DecodeFailureFailsRequest ==
  (outcome # "none" /\ ~ArgsValid(SentArguments(stream)))
    => outcome = "failure"

\* The messages delivered for the k-th segment split off
MessagesOf(k) == {i \in 1..Len(delivered) : delivered[i].src = k}

\* The lines of a segment the loop works on: those up to its first [DONE]
\* data line
RECURSIVE LinesWorked(_)
LinesWorked(lines) ==
  IF lines = <<>> THEN <<>>
  ELSE IF Head(lines) = FrameDone THEN <<Head(lines)>>
  ELSE <<Head(lines)>> \o LinesWorked(Tail(lines))

\* The data lines of a segment among the lines worked on
DataLines(seg) ==
  SelectSeq(LinesWorked(Split(seg, Newline)),
            LAMBDA l : StartsWith(l, DataPrefix))

\* Whether no line of the segment starts with the event-data prefix
NoDataLine(seg) ==
  \A i \in 1..Len(Split(seg, Newline)) :
     ~StartsWith(Split(seg, Newline)[i], DataPrefix)

\* C23, as stated: a frame yields zero or one message; a frame with no line
\* starting with the prefix "data: " yields nothing, and no frame, whatever
\* lines it contains, yields more than one message.
C23_FrameAtMostOneMessage ==
  \A k \in 1..Len(consumed) :
     /\ NoDataLine(consumed[k]) => MessagesOf(k) = {}
     /\ Cardinality(MessagesOf(k)) <= 1

\* C23, amended: a frame yields at most one message for each of its lines
\* that start with the prefix "data: ", the lines after a [DONE] line not
\* counted; so a frame with no such line yields nothing and a frame with
\* one such line yields zero or one message.
C23_FrameAtMostOnePerDataLine ==
  \A k \in 1..Len(consumed) :
     /\ NoDataLine(consumed[k]) => MessagesOf(k) = {}
     /\ Cardinality(MessagesOf(k)) <= Len(DataLines(consumed[k]))

\* C23: a frame of two data lines has yielded two messages, and a frame
\* with no data line has yielded none.
C23_Witness ==
  /\ Len(consumed) = 2
  /\ NoDataLine(consumed[1])
  /\ MessagesOf(1) = {}
  /\ Len(DataLines(consumed[2])) = 2
  /\ Cardinality(MessagesOf(2)) = 2

\* Whether a segment is empty or holds white space only
WhitespaceOnly(seg) == Range(seg) \subseteq Whitespace

\* The segments the step at hand splits off
NewSegments == SubSeq(consumed', Len(consumed) + 1, Len(consumed'))

\* C24: a segment that is empty or holds white space only is discarded: it
\* is no frame (the frames worked on are the other segments), no message
\* comes from it, and a call that splits off such segments only leaves the
\* messages delivered, the frames and the accumulator it was called with
\* as they were.
C24_BlankSegmentDiscarded ==
  /\ [](/\ handed = SelectSeq(consumed, LAMBDA seg : ~WhitespaceOnly(seg))
        /\ \A k \in 1..Len(consumed) :
             WhitespaceOnly(consumed[k]) => MessagesOf(k) = {})
  /\ [][(\A i \in 1..Len(NewSegments) : WhitespaceOnly(NewSegments[i]))
         => /\ delivered' = delivered
            /\ handed' = handed
            /\ pending' = Undefined]_vars

\* C24: after a content frame, a call has split off a segment of white
\* space alone.
C24_Witness ==
  /\ consumed = <<FrameHi, FramePad>>
  /\ handed = <<FrameHi>>
  /\ Len(delivered) = 1
  /\ lastBatch = <<>>
  /\ lastMarker = "data"
  /\ buffer = <<>>

-----------------------------------------------------------------------------
(* Properties of the credential *)

\* C1: whenever sendStreamingRequest issues the outbound chat request, the
\* bearer token it sends belongs to a stored credential that is not expired
\* at that moment.
C1_NoExpiredTokenSent == lastSent.made => ~lastSent.expired

\* C2: after a successful setup that obtained the credential by an exchange,
\* and as long as every token exchange succeeds, the stored credential is
\* never expired, and a renewal exchange started by the timer happens while
\* the credential is still unexpired.
C2_RenewedBeforeExpiry ==
  (/\ copilotStatus = "ready"
   /\ ~exchangeFailed
   /\ store.token \notin {0, EarlierToken})
    => /\ ~CheckTokenExpired(store, now)
       /\ local["timer"].pc = "exchange" => ~local["timer"].expiredAtCall

\* C9: when the stored credential's expiry is in the past at the call, the
\* credential-ensuring operation (signIn() of the renewal timer, the
\* pre-request check of sendStreamingRequest) has performed exactly one
\* token exchange request when it returns.
C9_ExactlyOneExchange ==
  \A p \in {"timer", "req"} :
    (local[p].returned /\ local[p].expiredAtCall) => local[p].nExch = 1

\* C10: when the token exchange answers with a non-success status, the step
\* that receives the answer leaves the stored credential as it was, and
\* signIn returns false to its caller.
C10_FailedExchangeKeepsStore ==
  [][\A p \in Procs :
       (/\ local[p].pc = "exchange"
        /\ local'[p].pc # "exchange"
        /\ local'[p].lastExchange \notin {0, 200})
         => /\ store' = store
            /\ local'[p].pc = "after"
            /\ local'[p].returned
            /\ ~local'[p].ret]_vars

\* C10: an exchange has answered 401 while an old credential was stored;
\* the credential is still there and signIn has returned false.
C10_Witness ==
  \E p \in Procs :
    /\ local[p].pc = "after"
    /\ local[p].lastExchange = 401
    /\ ~local[p].ret
    /\ store.exists
    /\ store.token = EarlierToken

\* Whether the token data is one credential, whole: the token and the
\* endpoint of one exchange of this run, or of the earlier run's file
OneCredential(token, endpoint) ==
  /\ token = endpoint
  /\ token \in (1..exchanges) \cup {EarlierToken}

\* C11: the stored file always holds one whole credential, so every read of
\* it returns a token and an endpoint of one and the same exchange; and the
\* token and the endpoint of an outbound request come from one credential.
C11_WholeCredential ==
  /\ store.exists => OneCredential(store.token, store.endpoint)
  /\ store.exists =>
       OneCredential(GetGithubToken(store).token,
                     GetGithubToken(store).endpoint)
  /\ lastSent.made => OneCredential(lastSent.token, lastSent.endpoint)

\* C11: a request went out with the credential of a renewal that replaced
\* an older credential, while another renewal is in flight.
C11_Witness ==
  /\ lastSent.made
  /\ lastSent.token \in 2..MaxExchanges
  /\ \E p \in Procs : local[p].pc = "exchange"

\* C12: when the request path runs its credential check on an expired
\* credential while the timer's signIn is in flight on the same expired
\* credential, the request path has performed a token exchange of its own
\* when it returns (no deduplication: each run exchanges), and the store
\* holds one whole credential.
C12_EachRunExchanges ==
  (/\ local["req"].returned
   /\ local["req"].expiredAtCall
   /\ local["timer"].pc \in {"status", "github", "exchange", "final"}
   /\ local["timer"].expiredAtCall)
    => /\ local["req"].nExch = 1
       /\ store.exists => OneCredential(store.token, store.endpoint)

AuthErrors == {"GitHub token not valid",
               "Failed to sign in and refresh GitHub token"}

\* C13: whenever sendStreamingRequest returns while no token is stored (none
\* was stored and refreshToken was false, or the forced sign-in or the
\* token exchange failed), it has made no outbound chat request and its
\* result is an authentication error.
C13_NoCredentialNoRequest ==
  [][(/\ local'["req"].pc = "idle"
      /\ local["req"].pc = "after" \/ lastSent' # lastSent
      /\ GetGithubToken(store).token = 0)
       => /\ ~lastSent'.made
          /\ lastSent'.error \in AuthErrors]_vars

\* C13: the request path's forced sign-in ended in a failed token exchange,
\* no credential is stored, and the request returned the sign-in error.
C13_Witness ==
  /\ lastSent.error = "Failed to sign in and refresh GitHub token"
  /\ exchangeFailed
  /\ ~store.exists
  /\ local["req"].pc = "idle"

\* Whether the call of signIn by p has gone past its first status check
PastStatus(l) == l.pc \in {"github", "exchange", "final", "after"}

\* C25: a call signIn(false) that finds the user authenticated and the
\* stored credential unexpired starts no authorization flow, makes no token
\* exchange and returns true, and its step leaves the stored credential as
\* it was.
C25_UnforcedSignInNoOp ==
  /\ [](\A p \in Procs :
          (PastStatus(local[p]) /\ ~local[p].force
             /\ local[p].authenticated /\ local[p].valid)
            => /\ local[p].pc = "after"
               /\ local[p].ret
               /\ local[p].flows = 0
               /\ local[p].nExch = 0)
  /\ [][\A p \in Procs :
          (local[p].pc = "status" /\ PastStatus(local'[p])
             /\ ~local'[p].force /\ local'[p].authenticated
             /\ local'[p].valid)
            => store' = store /\ exchanges' = exchanges]_vars

\* C25: the timer's signIn() has returned true, having found the user
\* authenticated and the credential of this run's exchange unexpired.
C25_Witness ==
  /\ local["timer"].pc = "after"
  /\ ~local["timer"].force
  /\ local["timer"].authenticated
  /\ local["timer"].valid
  /\ local["timer"].ret
  /\ local["timer"].nExch = 0
  /\ store.token \notin {0, EarlierToken}

\* Whether the call is no no-op: forced, or the user not authenticated, or
\* the stored credential not valid
NotNoOp(l) == PastStatus(l) /\ (l.force \/ ~l.authenticated \/ ~l.valid)

\* A step in which p's authorization flow fails leaves the stored
\* credential as it was and issues no exchange
FailedFlowChangesNothing ==
  \A p \in Procs :
     (local[p].pc = "github" /\ local'[p].confirm = "failed")
       => store' = store /\ exchanges' = exchanges

C27_SignOutInvalidates ==
  (local["cli"].pc = "out" /\ local["cli"].ret)
    => /\ GetGithubToken(store).token = 0
       /\ local["cli"].notified = local["cli"].authenticated

\* The errors sendStreamingRequest returns without having issued a request
ReturnedErrors ==
  {"GitHub token not valid",
   "Failed to sign in and refresh GitHub token",
   "Could not determine GitHub token",
   "Could not determine API endpoint",
   "Cannot read properties of undefined",
   "Cannot destructure property 'token'"}

\* Whether the request that was issued has failed: the connection failed,
\* the status is not 200, or a handler's try block threw
ResponseFailed ==
  \/ phase = "error"
  \/ resStatusCode # 200
  \/ result.error = "Failed to parse response"

\* C28: sendStreamingRequest ends in a returned value and never in an
\* exception.  Where it returns without having issued the request (no
\* token stored and no refresh asked for, the credential file unreadable,
\* the sign-in failed, no endpoint, no model configuration) the value is
\* { success: false, error }, and a request is only issued with a token and
\* an endpoint; where the request was issued, the value is
\* { success: false, error } exactly when the connection failed, the status
\* was not 200 or a handler's try block threw, and { success: true }
\* otherwise.
C28_FailuresAreReturned ==
  /\ outcome \in {"none", "success", "failure"}
  /\ outcome # "none" => (outcome = "failure" <=> ResponseFailed)
  /\ result.state # "pending" => lastSent.made
  /\ lastSent.made
       => /\ lastSent.token \notin {0, -1}
          /\ lastSent.endpoint \notin {0, -1}
          /\ lastSent.error = ""
  /\ (~lastSent.made /\ lastSent # NotSent)
       => lastSent.error \in ReturnedErrors

\* C28: the sink threw while the response was streamed, the stream has
\* ended, and the request has returned { success: false, error }.
C28_Witness ==
  /\ phase = "ended"
  /\ resStatusCode = 200
  /\ result = ProcError
  /\ outcome = "failure"

\* C29: a renewal attempt of the timer that fails leaves the timer armed
\* and the server as it was: once the server is ready the timer is armed
\* for a time not yet passed, also when the timer's signIn() has returned
\* false; the step that ends the callback changes neither the timer nor
\* the server's status; and every tick re-arms the timer one interval
\* later and starts a new sign-in, whatever the earlier ones came to.
C29_FailedRenewalKeepsTimer ==
  /\ [](copilotStatus = "ready" => (nextTick # 0 /\ nextTick >= now))
  /\ []((local["timer"].pc = "after" /\ ~local["timer"].ret)
          => (copilotStatus = "ready" /\ nextTick # 0 /\ nextTick >= now))
  /\ [][(local["timer"].pc = "after" /\ local'["timer"].pc = "idle")
         => (nextTick' = nextTick /\ copilotStatus' = copilotStatus)]_vars
  /\ [][(nextTick # 0 /\ nextTick' # nextTick)
         => /\ nextTick' = nextTick + RefreshInterval
            /\ local["timer"].pc = "idle"
            /\ local'["timer"].pc = "status"]_vars

\* C29: the timer's signIn() has returned false, after the language server
\* failed to answer and the device flow was not confirmed, and the timer
\* is armed for the next tick.
C29_Witness ==
  /\ local["timer"].pc = "after"
  /\ ~local["timer"].ret
  /\ local["timer"].confirm = "failed"
  /\ copilotStatus = "ready"
  /\ nextTick = now + RefreshInterval

\* The verdict of a status check made by the step at hand, for the command
\* line program: the first check of signIn, and its final check where
\* signIn returns true
VerdictIs(valid) ==
  /\ (local["cli"].pc = "status" /\ local'["cli"].pc # "status")
       => local'["cli"].valid = valid
  /\ (local["cli"].pc = "final" /\ local'["cli"].pc = "after"
        /\ local'["cli"].ret)
       => valid

\* C30, as stated: at every check the stored credential is reported valid
\* exactly when it has no expiry or its expiry is later than the current
\* time, and expired otherwise, from the expiry stored and the time of the
\* check.
C30_ValidIffExpiryInFuture ==
  [][VerdictIs(store.exists
                 /\ (store.expires_at = 0 \/ store.expires_at > now))]_vars

\* C30, amended: at every check the stored credential is reported valid
\* exactly when it has no expiry or its expiry is not earlier than the
\* current time, and expired otherwise, from the expiry stored and the time
\* of the check.
C30_ValidIffExpiryNotPast ==
  [][VerdictIs(store.exists
                 /\ (store.expires_at = 0 \/ store.expires_at >= now))]_vars

\* C30: a check made at the very minute of the stored expiry has reported
\* the credential valid, and signIn() has returned true on it.
C30_Witness ==
  /\ local["cli"].pc = "after"
  /\ local["cli"].valid
  /\ local["cli"].ret
  /\ local["cli"].nExch = 0
  /\ store.exists
  /\ store.expires_at = now

-----------------------------------------------------------------------------
(* The language-server client: CopilotLSPClient *)

\* A start() call that is not running: not made yet, returned or thrown
Over(c) == starts[c].pc \in {"idle", "returned", "threw"}

\* A start() call waiting for the answer to a request of #initialize
Awaiting(c) == starts[c].pc \in {"initialize", "setEditorInfo"}

\* connection.dispose() has not been called on the connection to child k
Listening(k) == children[k] \in {"running", "exited"}

\* start() with this.childProcess set: "Already started", it returns at once
StartAlready(c) ==
  /\ Over(c)
  /\ childProcess # 0
  /\ starts' = [starts EXCEPT ![c] = [NotStarted EXCEPT !.pc = "returned"]]
  /\ UNCHANGED <<initialized, connection, childProcess, children, lspCalls,
                 lspSent, lastRequest, streamVars, authVars, srvVars>>

\* start() when #findServerPath finds no language-server.js: it throws
StartNoServer(c) ==
  /\ Over(c)
  /\ childProcess = 0
  /\ starts' = [starts EXCEPT ![c] = [NotStarted EXCEPT !.pc = "threw"]]
  /\ UNCHANGED <<initialized, connection, childProcess, children, lspCalls,
                 lspSent, lastRequest, streamVars, authVars, srvVars>>

\* start() spawning a child: it sets childProcess and connection, registers
\* the exit handler, and runs #initialize up to its first await (or to its
\* return, when this.initialized is already set)
StartSpawn(c) ==
  /\ Over(c)
  /\ childProcess = 0
  /\ Len(children) < MaxSpawns
  /\ children' = Append(children, "running")
  /\ childProcess' = Len(children) + 1
  /\ connection' = Len(children) + 1
  /\ starts' = [starts EXCEPT ![c] =
                  IF initialized
                    THEN [NotStarted EXCEPT !.pc = "returned"]
                    ELSE [pc |-> "initialize", conn |-> Len(children) + 1,
                          answered |-> FALSE]]
  /\ UNCHANGED <<initialized, lspCalls, lspSent, lastRequest, streamVars,
                 authVars, srvVars>>

\* The child answers the request a start() call is waiting on
Answer(c) ==
  /\ Awaiting(c)
  /\ ~starts[c].answered
  /\ children[starts[c].conn] = "running"
  /\ starts' = [starts EXCEPT ![c].answered = TRUE]
  /\ UNCHANGED <<initialized, connection, childProcess, children, lspCalls,
                 lspSent, lastRequest, streamVars, authVars, srvVars>>

\* A request or notification of #initialize is rejected (an error response,
\* or a closed connection): the catch clause logs and rethrows
InitializeFails(c) ==
  /\ starts[c].pc \in {"initialize", "notify", "setEditorInfo"}
  /\ ~starts[c].answered
  /\ starts' = [starts EXCEPT ![c] = [NotStarted EXCEPT !.pc = "threw"]]
  /\ UNCHANGED <<initialized, connection, childProcess, children, lspCalls,
                 lspSent, lastRequest, streamVars, authVars, srvVars>>

\* What #initialize does next with this.connection: a call on it, which
\* throws a TypeError when it is null
NextCall(c, stage) ==
  starts' = [starts EXCEPT ![c] =
               IF connection = 0
                 THEN [NotStarted EXCEPT !.pc = "threw"]
                 ELSE [pc |-> stage, conn |-> connection,
                       answered |-> FALSE]]

\* The answer to "initialize" arrives: sendNotification("initialized")
InitializeAnswered(c) ==
  /\ starts[c].pc = "initialize"
  /\ starts[c].answered
  /\ Listening(starts[c].conn)
  /\ NextCall(c, "notify")
  /\ UNCHANGED <<initialized, connection, childProcess, children, lspCalls,
                 lspSent, lastRequest, streamVars, authVars, srvVars>>

\* The notification is written: sendRequest("setEditorInfo")
Notified(c) ==
  /\ starts[c].pc = "notify"
  /\ NextCall(c, "setEditorInfo")
  /\ UNCHANGED <<initialized, connection, childProcess, children, lspCalls,
                 lspSent, lastRequest, streamVars, authVars, srvVars>>

\* The answer to "setEditorInfo" arrives: this.initialized = true, and
\* #initialize and start() return
EditorInfoAnswered(c) ==
  /\ starts[c].pc = "setEditorInfo"
  /\ starts[c].answered
  /\ Listening(starts[c].conn)
  /\ initialized' = TRUE
  /\ starts' = [starts EXCEPT ![c] = [NotStarted EXCEPT !.pc = "returned"]]
  /\ UNCHANGED <<connection, childProcess, children, lspCalls, lspSent,
                 lastRequest, streamVars, authVars,
                 srvVars>>

\* stop()
Stop ==
  /\ connection' = 0
  /\ childProcess' = 0
  /\ children' = IF childProcess = 0 THEN children
                 ELSE [children EXCEPT ![childProcess] = "killed"]
  /\ initialized' = FALSE
  /\ UNCHANGED <<starts, lspCalls, lspSent, lastRequest, streamVars,
                 authVars, srvVars>>

\* childProcess.on("exit", ...) of child k, running or killed: the handler
\* clears the fields of the client whichever child they refer to
ChildExit(k) ==
  /\ children[k] \in {"running", "killed"}
  /\ children' = [children EXCEPT
                    ![k] = IF children[k] = "running" THEN "exited"
                           ELSE "gone"]
  /\ connection' = 0
  /\ childProcess' = 0
  /\ initialized' = FALSE
  /\ UNCHANGED <<starts, lspCalls, lspSent, lastRequest, streamVars,
                 authVars, srvVars>>

\* request() without its two checks (a faulty variant): it calls
\* this.connection.sendRequest, which throws a TypeError on null
RequestUnchecked ==
  /\ lspCalls < MaxCalls
  /\ lspCalls' = lspCalls + 1
  /\ lastRequest' = IF connection = 0 THEN "threw" ELSE "sent"
  /\ lspSent' = IF connection = 0 THEN lspSent ELSE lspSent + 1
  /\ UNCHANGED <<initialized, connection, childProcess, children, starts,
                 streamVars, authVars, srvVars>>

\* request(method, params), up to its await
Request ==
  /\ lspCalls < MaxCalls
  /\ lspCalls' = lspCalls + 1
  /\ lastRequest' = IF ~initialized \/ connection = 0 THEN "threw"
                    ELSE "sent"
  /\ lspSent' = IF ~initialized \/ connection = 0 THEN lspSent
                ELSE lspSent + 1
  /\ UNCHANGED <<initialized, connection, childProcess, children, starts,
                 streamVars, authVars, srvVars>>

LspInit ==
  /\ stream = <<>>
  /\ resStatusCode = 200
  /\ Registered
  /\ AuthBoot
  /\ store = NoFile
  /\ lspUser = FALSE
  /\ oauth = FALSE

LspNext ==
  \/ \E c \in Callers : StartAlready(c)
  \/ \E c \in Callers : StartNoServer(c)
  \/ \E c \in Callers : StartSpawn(c)
  \/ \E c \in Callers : Answer(c)
  \/ \E c \in Callers : InitializeFails(c)
  \/ \E c \in Callers : InitializeAnswered(c)
  \/ \E c \in Callers : Notified(c)
  \/ \E c \in Callers : EditorInfoAnswered(c)
  \/ Stop
  \/ \E k \in 1..Len(children) : ChildExit(k)
  \/ Request

LspSpec == LspInit /\ [][LspNext]_vars

-----------------------------------------------------------------------------
(* Properties of the language-server client *)

\* C31: a request() call made while the client is not initialized, or
\* while it has no connection, throws and writes nothing to a connection.
C31_RequestRefusedWhenNotReady ==
  [][(lspCalls' = lspCalls + 1 /\ (~initialized \/ connection = 0))
       => (lastRequest' = "threw" /\ lspSent' = lspSent)]_vars

\* Two request() calls have been refused and nothing has been written, the
\* client being without a connection after a child has exited
C31_Witness ==
  /\ lastRequest = "threw"
  /\ lspCalls = 2
  /\ lspSent = 0
  /\ connection = 0
  /\ \E k \in 1..Len(children) : children[k] \in {"exited", "gone"}

\* C37: whenever the client is initialized it has a connection and a child
\* process.
C37_InitializedHasConnection ==
  initialized => (connection # 0 /\ childProcess # 0)

\* The children that are running and have not been killed
Running == {k \in 1..Len(children) : children[k] = "running"}

\* C38: a start() call that returns without throwing leaves the client
\* initialized, and at no time is there more than one running
\* language-server process.
C38_StartInitializesOneChild ==
  /\ [](Cardinality(Running) <= 1)
  /\ [][\A c \in Callers :
          (starts[c].pc # "returned" /\ starts'[c].pc = "returned")
            => initialized']_vars

\* The messages a text yields when it arrives as one single chunk, the end
\* handler running after it
WholeMessages(text) ==
  ParseToOllamaResp(text, Undefined).parsedMessages
    \o ParseToOllamaResp(ParseToOllamaResp(text, Undefined).remainBuffer,
                         Undefined).parsedMessages

\* C33: when the stream has ended, the messages delivered to the sink, with
\* every field of the terminal message, are those the same text yields
\* when it arrives as one single chunk, however it was cut into chunks.
C33_MessagesSplitInvariant ==
  phase = "ended" => Untagged(delivered) = Untagged(WholeMessages(stream))

\* C34: for a response whose status is not 200 the sink is never invoked,
\* neither with the marker "data" nor with the marker "end".
C34_NoSinkOnStatusError ==
  resStatusCode # 200 => (lastMarker = "none" /\ delivered = <<>>)

\* C35: the handler of a streaming /api/chat request ends the HTTP response
\* exactly once, whatever the outcome of the request, and writes nothing to
\* it after it has been ended.
C35_ResponseEndedOnce ==
  /\ SinkEnds + HandlerEnds <= 1
  /\ chatHandler # "awaiting" => SinkEnds + HandlerEnds = 1
  /\ ~WrittenAfterEnd

\* C39: the "chat" command terminates: whatever sendStreamingRequest runs
\* into, cleanup() is reached and the process exits.  No event is left to
\* occur once sendStreamingRequest has returned, so a run terminates
\* exactly if cleanup() has been reached by then.
C39_ChatTerminates == ChatResultKnown => Exited

\* C36: a request is passed on to its handler only when the setup has
\* completed successfully; otherwise, the setup still running included, it
\* is answered 401 when the setup found no valid sign-in and 500 if not.
C36_GateFollowsSetup ==
  [][gate' # gate
       => gate' = CASE copilotStatus = "ready" -> "next"
                    [] copilotStatus = "auth" -> "401"
                    [] OTHER -> "500"]_vars

\* C32: getCurrentModel() returns a model configuration in every case: the
\* stored one, or, when none is stored, the default settings, which it
\* writes to the file, so that the file holds what the call returned.
C32_CurrentModelAlwaysConfigured ==
  [][currentModel' # currentModel
       => /\ currentModel'.success
          /\ modelFile' # NoConfig
          /\ currentModel'.modelConfig = modelFile']_vars

=============================================================================
